---- MODULE Spec2Model ----
(***************************************************************************)
(* A model of the fragment runtime.                                        *)
(*                                                                         *)
(* Two designs live in the repository and are modelled side by side:       *)
(*                                                                         *)
(*  - the locking design (fragments-core/src/app.rs, fragment.rs,          *)
(*    widget.rs): the Store (flax World) sits behind a Mutex, every widget *)
(*    task locks it to write, and a dispatcher task applies the events     *)
(*    Despawn and Exit. Its specification is Spec.                         *)
(*                                                                         *)
(*  - the buffered design (src/state.rs, src/fragment.rs): State owns the  *)
(*    World, fragments buffer their writes behind an RwLock and ask the    *)
(*    State::run loop to run their flush effect. Its specification is      *)
(*    SpecState.                                                           *)
(***************************************************************************)
EXTENDS Integers, Sequences, FiniteSets, TLC

(* Bounds of the model. *)
MaxEntities == 2
MaxEvents == 2
MaxNested == 1

(* Option<Entity>::None, and the id of the first entity spawned (the root). *)
NoEnt == 0
Root == 1

(* No Fragment::put has run on the entity yet. *)
NoPut == -1

Ent == 1..MaxEntities

(* Components of the locking design: the widget tag (components::widget) and
   one content component standing for any component a widget sets. *)
WidgetTag == "widget"
Content == "content"
Comp == {WidgetTag, Content}

(* Bounds of the buffered design: fragment slots, component values, write
   guards per fragment. *)
MaxFrags == 2
MaxVal == 2
MaxGuards == 2
MaxQueued == 2
MaxPolls == 3
MaxNotifies == 2

(* Bounds of the Row example: children of the Row, size writes per child. *)
MaxChildren == 2
MaxSizeWrites == 2

(* Bounds of DesyncRef: sync calls, and what a job adds to the value. *)
MaxCalls == 2
MaxDelta == 2

Slot == 1..MaxFrags

(* The children of the Row. *)
Kid == 1..MaxChildren
(* State::spawn_fragment spawns two entities, FragmentState::spawn one. *)
BEnt == 1..(MaxFrags + MaxFrags)
BComp == {"x", "y"}
Val == 1..MaxVal
NoValues == [c \in BComp |-> 0]

(* app.rs Event *)
DespawnEv(id) == [type |-> "Despawn", id |-> id]
ExitEv == [type |-> "Exit", id |-> NoEnt]
Event == {DespawnEv(e) : e \in Ent} \cup {ExitEv}

VARIABLES
    (* ---- locking design ---- *)
    alive,        \* entities alive in the World
    comps,        \* comps[e]: the components entity e carries (child_of apart)
    parent,       \* parent[e]: target of e's child_of relation, or NoEnt
    nextId,       \* the next entity id the World hands out
    lock,         \* the World mutex: "free", "disp" or "task"
    poisoned,     \* the World mutex is poisoned (a holder panicked)
    queue,        \* the flume channel's content
    dpc,          \* the dispatcher task: "recv", "lock", "batch", "exited", "failed", "panicked"
    batch,        \* the event recv_async returned, then the batch still to be handled
    tstate,       \* tstate[e]: the widget task whose Fragment has entity e
    holder,       \* holder[e]: the task that holds e's WidgetFuture, or NoEnt
    enqRes,       \* what the latest AppRef::enqueue call returned
    nEnq,         \* number of AppRef::enqueue calls so far
    nspawn,       \* nspawn[e]: live Fragment values with id e made by Fragment::spawn
    nput,         \* nput[e]: live Fragment values with id e made by Fragment::put
    wfid,         \* wfid[e]: the id stored in the WidgetFuture of task e (NoEnt: no future)
    srcParent,    \* srcParent[e]: the child_of target Fragment::put of src/widget.rs leaves on e (NoPut: no put yet)
    rootOut,      \* the Output the root's mount future resolved with ("none": not resolved)
    coreRes,      \* what App::run of fragments-core returned ("none": not returned)
    srcRes,       \* what App::run of src/app.rs returned for the same root ("none": not returned)
    (* history of the locking design *)
    sent,         \* every event a successful enqueue put in the channel, in order
    applied,      \* every event the dispatcher loop matched on, in order
    (* ---- buffered design ---- *)
    brun,         \* State::run: "new" (not yet called), "running", "panicked"
    bq,           \* the flume channel of State (events_tx / events_rx)
    bkind,        \* bkind[i]: what entity i of State's World is: "none", "blank", "fragment"
    bworld,       \* bworld[i][c]: the World's value of component c on entity i (0: absent)
    effects,      \* the keys of State::effects (the key of slot s's flush effect is s)
    fst,          \* fst[s]: the task rendering the fragment of slot s ("bare": its FragmentState dropped)
    fent,         \* fent[s]: the entity of slot s's FragmentState (0: not spawned)
    battached,    \* battached[i]: the value of entity i's `attached` component (0: absent)
    fholder,      \* fholder[s]: the slot whose body holds s's FragmentFuture (0: the program)
    buf,          \* buf[s][c]: FragmentData::components, the pending value of c (0: none)
    (* history of the buffered design *)
    commits,      \* commits[s]: the fragment's content after each completed guard
    lastSet,      \* lastSet[s][c]: the value the latest completed guard left for c
    nGuards,      \* write guards taken so far
    promise,      \* the entity the latest SpawnEntity completer was completed with (0: not completed)
    fkey,         \* fkey[s]: the EffectKey in the EffectHandle of slot s's FragmentData (0: none)
    (* ---- NotifySender / NotifyReceiver (fragments-core/src/notify.rs) ---- *)
    woken,        \* AsyncSignal::woken
    waker,        \* AsyncSignal::waker: the poll whose Waker is stored (0: None)
    rpc,          \* NotifyReceiver::poll: "idle", or "set" between the failed CAS and set_waker
    spc,          \* NotifySender::notify: "idle", or "stored" between the store and the wake
    polls,        \* what each finished poll returned, in order
    wokenWakers,  \* the polls whose Waker was woken
    (* history of the notify pair *)
    nNotify,      \* notify calls started so far
    nSince,       \* stores of woken since the latest poll that returned Ready
    (* ---- Row::mount (fragments-core/examples/basic.rs) ---- *)
    rjpc,         \* the poll of join!(update_loop, update_layout): "idle", "loop", "layout", "panicked"
    kst,          \* kst[c]: the mount future of child c: "unpolled", "running", "pending", "done"
    ksize,        \* ksize[c]: the size child c has written last (0: none yet)
    laid,         \* laid[c]: the size of child c the latest layout recompute used (0: none)
    subscribed,   \* the ChangeSubscriber on size is registered in the World
    permit,       \* width_changed (tokio Notify) holds a notification
    (* ---- DesyncRef::sync (fragments-core/src/desync.rs) ---- *)
    ccpc,         \* the calling thread: "idle", "sent", "parked", "woke", "panicked"
    kpc,          \* the consumer thread: "recv", "run", "set", "unparked"
    dq,           \* the flume channel of jobs
    dcur,         \* the job the consumer holds (0: none)
    dcell,        \* the OnceCell of the call (0: empty)
    dstrong,      \* strong count of the call's Arc<OnceCell>
    dtoken,       \* the park token of the calling thread
    dval,         \* the contained value
    dret,         \* what the latest sync call returned (0: not returned)
    dexp,         \* what f returned when the consumer invoked it (0: not invoked)
    dcalls        \* sync calls started so far

(* The Fragment values and WidgetFutures of the locking design. *)
fvars == <<nspawn, nput, wfid, srcParent>>

(* The root's Output and the results of App::run. *)
rvars == <<rootOut, coreRes, srcRes>>

avars == <<alive, comps, parent, nextId, lock, poisoned, queue, dpc, batch,
           tstate, holder, enqRes, nEnq, sent, applied, fvars, rvars>>

bvars == <<brun, bq, bkind, bworld, battached, effects, fst, fent, fholder, buf,
           commits, lastSet, nGuards, promise, fkey>>

nvars == <<woken, waker, rpc, spc, polls, wokenWakers, nNotify, nSince>>

(* Row::mount of examples/basic.rs. *)
rowvars == <<rjpc, kst, ksize, laid, subscribed, permit>>

(* DesyncRef::sync and the thread that runs the jobs. *)
dvars == <<ccpc, kpc, dq, dcur, dcell, dstrong, dtoken, dval, dret, dexp, dcalls>>

vars == <<avars, bvars, nvars, rowvars, dvars>>

-----------------------------------------------------------------------------
(* The World (flax), as far as the runtime uses it. *)

Children(par, e) == {c \in DOMAIN par : par[c] = e}

RECURSIVE DescendantsN(_, _, _)
DescendantsN(par, e, n) ==
    IF n = 0 THEN {}
    ELSE LET cs == Children(par, e)
         IN cs \cup UNION {DescendantsN(par, c, n - 1) : c \in cs}

(* The transitive child_of-descendants of e. *)
Descendants(par, e) == DescendantsN(par, e, Cardinality(DOMAIN par))

(* World::despawn(id): removes the entity `id` alone; relations that point at
   it are detached. It names no relation, so it cannot follow child_of. *)
DespawnSet(al, par, id) == {id}

(* ---- the channel ---- *)

(* flume: send fails once the only Receiver is dropped, which happens when
   the handle_events future ends (return, error or panic). *)
ChanOpenAlways == TRUE
ChanOpen == dpc \in {"recv", "lock", "batch"}

(* rx.recv_async(): the oldest queued message, and what stays queued. *)
RecvNewest(q) == <<q[Len(q)], SubSeq(q, 1, Len(q) - 1)>>
Recv(q) == <<Head(q), Tail(q)>>

(* rx.drain(): every queued message, oldest first. *)
Drain(q) == q

-----------------------------------------------------------------------------
(* App::run up to `root.mount(state)`: the dispatcher task is spawned, the
   root Fragment is spawned with the widget tag and no parent. *)
InitApp ==
    /\ alive = {Root}
    /\ comps = [e \in Ent |-> IF e = Root THEN {WidgetTag} ELSE {}]
    /\ parent = [e \in Ent |-> NoEnt]
    /\ nextId = Root + 1
    /\ lock = "free"
    /\ poisoned = FALSE
    /\ queue = <<>>
    /\ dpc = "recv"
    /\ batch = <<>>
    /\ tstate = [e \in Ent |-> IF e = Root THEN "running" ELSE "none"]
    /\ holder = [e \in Ent |-> NoEnt]
    /\ enqRes = "none"
    /\ nEnq = 0
    /\ sent = <<>>
    /\ applied = <<>>
    /\ nspawn = [e \in Ent |-> IF e = Root THEN 1 ELSE 0]
    /\ nput = [e \in Ent |-> 0]
    /\ wfid = [e \in Ent |-> NoEnt]
    /\ srcParent = [e \in Ent |-> NoPut]
    /\ rootOut = "none"
    /\ coreRes = "none"
    /\ srcRes = "none"

(* NotifySender / NotifyReceiver over a new AsyncSignal: no waker, not
   woken. *)
InitNotify ==
    /\ woken = FALSE
    /\ waker = 0
    /\ rpc = "idle"
    /\ spc = "idle"
    /\ polls = <<>>
    /\ wokenWakers = {}
    /\ nNotify = 0
    /\ nSince = 0

(* State::new(): an empty World, an empty effect registry, an open channel. *)
InitState ==
    /\ brun = "new"
    /\ bq = <<>>
    /\ bkind = [i \in BEnt |-> "none"]
    /\ bworld = [i \in BEnt |-> NoValues]
    /\ battached = [i \in BEnt |-> NoEnt]
    /\ effects = {}
    /\ fst = [s \in Slot |-> "none"]
    /\ fent = [s \in Slot |-> NoEnt]
    /\ fholder = [s \in Slot |-> NoEnt]
    /\ buf = [s \in Slot |-> NoValues]
    /\ commits = [s \in Slot |-> {NoValues}]
    /\ lastSet = [s \in Slot |-> NoValues]
    /\ nGuards = 0
    /\ promise = 0
    /\ fkey = [s \in Slot |-> 0]

(* Row::mount up to join!: the children are attached (their futures are in
   the FuturesUnordered, not yet polled), width_changed is a new Notify, and
   nothing is subscribed: update_layout has not been polled. *)
InitRow ==
    /\ rjpc = "idle"
    /\ kst = [c \in Kid |-> "unpolled"]
    /\ ksize = [c \in Kid |-> 0]
    /\ laid = [c \in Kid |-> 0]
    /\ subscribed = FALSE
    /\ permit = FALSE

(* Desync::new(value) with a consumer thread waiting for jobs. *)
InitDesync ==
    /\ ccpc = "idle"
    /\ kpc = "recv"
    /\ dq = <<>>
    /\ dcur = 0
    /\ dcell = 0
    /\ dstrong = 0
    /\ dtoken = FALSE
    /\ dval = 0
    /\ dret = 0
    /\ dexp = 0
    /\ dcalls = 0

Init == InitApp /\ InitState /\ InitNotify /\ InitRow /\ InitDesync

-----------------------------------------------------------------------------
(* The dispatcher task: handle_events of App::run. *)

(* rx.recv_async().await returned an event. *)
DispRecv ==
    /\ dpc = "recv"
    /\ queue # <<>>
    /\ batch' = <<Recv(queue)[1]>>
    /\ queue' = Recv(queue)[2]
    /\ dpc' = "lock"
    /\ UNCHANGED <<bvars, nvars, rowvars, dvars>>
    /\ UNCHANGED rvars
    /\ UNCHANGED fvars
    /\ UNCHANGED <<alive, comps, parent, nextId, lock, poisoned, tstate,
                   holder, enqRes, nEnq, sent, applied>>

(* world.lock().unwrap(), then once(event).chain(rx.drain()). *)
DispLock ==
    /\ dpc = "lock"
    /\ ~poisoned
    /\ lock = "free"
    /\ lock' = "disp"
    /\ batch' = batch \o Drain(queue)
    /\ queue' = <<>>
    /\ dpc' = "batch"
    /\ UNCHANGED <<bvars, nvars, rowvars, dvars>>
    /\ UNCHANGED rvars
    /\ UNCHANGED fvars
    /\ UNCHANGED <<alive, comps, parent, nextId, poisoned, tstate, holder,
                   enqRes, nEnq, sent, applied>>

(* world.lock().unwrap() on a poisoned mutex: the dispatcher task panics and
   its receiver is dropped with it. *)
DispLockPoisoned ==
    /\ dpc = "lock"
    /\ poisoned
    /\ dpc' = "panicked"
    /\ queue' = <<>>
    /\ UNCHANGED <<bvars, nvars, rowvars, dvars>>
    /\ UNCHANGED rvars
    /\ UNCHANGED fvars
    /\ UNCHANGED <<alive, comps, parent, nextId, lock, poisoned, batch,
                   tstate, holder, enqRes, nEnq, sent, applied>>

DispExitSkip ==
    /\ dpc = "batch"
    /\ Head(batch).type = "Exit"
    /\ applied' = Append(applied, Head(batch))
    /\ batch' = Tail(batch)
    /\ dpc' = IF Tail(batch) = <<>> THEN "recv" ELSE "batch"
    /\ lock' = IF Tail(batch) = <<>> THEN "free" ELSE "disp"
    /\ UNCHANGED <<bvars, nvars, rowvars, dvars>>
    /\ UNCHANGED rvars
    /\ UNCHANGED fvars
    /\ UNCHANGED <<alive, comps, parent, nextId, poisoned, queue, tstate,
                   holder, enqRes, nEnq, sent>>

(* Event::Exit => return Ok(()): the guard, the rest of the batch and the
   receiver are dropped. *)
DispExit ==
    /\ dpc = "batch"
    /\ Head(batch).type = "Exit"
    /\ applied' = Append(applied, Head(batch))
    /\ dpc' = "exited"
    /\ batch' = <<>>
    /\ queue' = <<>>
    /\ lock' = "free"
    /\ UNCHANGED <<bvars, nvars, rowvars, dvars>>
    /\ UNCHANGED rvars
    /\ UNCHANGED fvars
    /\ UNCHANGED <<alive, comps, parent, nextId, poisoned, tstate, holder,
                   enqRes, nEnq, sent>>

AfterEventUnlock ==
    /\ batch' = Tail(batch)
    /\ dpc' = IF Tail(batch) = <<>> THEN "recv" ELSE "batch"
    /\ lock' = "free"

(* The loop's position after one event of the batch was handled without
   error: the next event of the batch, or (guard dropped) the next recv. *)
AfterEvent ==
    /\ batch' = Tail(batch)
    /\ dpc' = IF Tail(batch) = <<>> THEN "recv" ELSE "batch"
    /\ lock' = IF Tail(batch) = <<>> THEN "free" ELSE "disp"

(* Event::Despawn(id) => world.despawn(id)? on a live entity. *)
DispDespawnOk ==
    /\ dpc = "batch"
    /\ Head(batch).type = "Despawn"
    /\ Head(batch).id \in alive
    /\ LET id == Head(batch).id
           gone == DespawnSet(alive, parent, id)
       IN /\ alive' = alive \ gone
          /\ comps' = [e \in Ent |-> IF e \in gone THEN {} ELSE comps[e]]
          /\ parent' = [e \in Ent |->
                          IF e \in gone \/ parent[e] \in gone THEN NoEnt
                          ELSE parent[e]]
    /\ applied' = Append(applied, Head(batch))
    /\ AfterEvent
    /\ UNCHANGED <<bvars, nvars, rowvars, dvars>>
    /\ UNCHANGED rvars
    /\ UNCHANGED fvars
    /\ UNCHANGED <<nextId, poisoned, queue, tstate, holder, enqRes, nEnq, sent>>

(* Event::Despawn(id) => world.despawn(id)? on an entity that is not alive:
   despawn returns Err and `?` returns it from handle_events. *)
DispDespawnErr ==
    /\ dpc = "batch"
    /\ Head(batch).type = "Despawn"
    /\ Head(batch).id \notin alive
    /\ applied' = Append(applied, Head(batch))
    /\ dpc' = "failed"
    /\ batch' = <<>>
    /\ queue' = <<>>
    /\ lock' = "free"
    /\ UNCHANGED <<bvars, nvars, rowvars, dvars>>
    /\ UNCHANGED rvars
    /\ UNCHANGED fvars
    /\ UNCHANGED <<alive, comps, parent, nextId, poisoned, tstate, holder,
                   enqRes, nEnq, sent>>

(* A widget task is live while its mount future exists and has not ended. *)
Live == {"unpolled", "running", "put", "locked"}

(* recv_async() returns Err once the channel is empty and every Sender (the
   AppRef of run and of each Fragment) is dropped: the loop ends with Ok. *)
DispClosed ==
    /\ dpc = "recv"
    /\ queue = <<>>
    /\ \A e \in Ent : tstate[e] \notin Live
    /\ dpc' = "closed"
    /\ UNCHANGED <<bvars, nvars, rowvars, dvars>>
    /\ UNCHANGED rvars
    /\ UNCHANGED fvars
    /\ UNCHANGED <<alive, comps, parent, nextId, lock, poisoned, queue, batch,
                   tstate, holder, enqRes, nEnq, sent, applied>>

-----------------------------------------------------------------------------
(* Widget tasks. Task t is the mount future whose Fragment has entity t; the
   root's is awaited by App::run, a child's is the WidgetFuture returned by
   attach. A widget is arbitrary code: at each step it picks one operation. *)

(* The futures that end when t's future is dropped or ends: the WidgetFutures
   t's body holds, and theirs. *)
HeldBy(t) == Descendants(holder, t)

DropFutures(ts, S) ==
    [e \in Ent |-> IF e \in S /\ ts[e] \in Live THEN "dropped" ELSE ts[e]]

(* The Fragment values owned by the mount futures of S are dropped with
   them. *)
FragsDropped(S) ==
    /\ nspawn' = [e \in Ent |-> IF e \in S THEN 0 ELSE nspawn[e]]
    /\ nput' = [e \in Ent |-> IF e \in S THEN 0 ELSE nput[e]]
    /\ UNCHANGED <<wfid, srcParent>>

(* First poll of a WidgetFuture: WidgetFuture::poll polls the mount future. *)
TaskPoll(t) ==
    /\ tstate[t] = "unpolled"
    /\ tstate' = [tstate EXCEPT ![t] = "running"]
    /\ UNCHANGED <<bvars, nvars, rowvars, dvars>>
    /\ UNCHANGED rvars
    /\ UNCHANGED fvars
    /\ UNCHANGED <<alive, comps, parent, nextId, lock, poisoned, queue, dpc,
                   batch, holder, enqRes, nEnq, sent, applied>>

(* Fragment::write: AppRef::world() locks the mutex. *)
TaskLock(t) ==
    /\ tstate[t] = "running"
    /\ ~poisoned
    /\ lock = "free"
    /\ lock' = "task"
    /\ tstate' = [tstate EXCEPT ![t] = "locked"]
    /\ UNCHANGED <<bvars, nvars, rowvars, dvars>>
    /\ UNCHANGED rvars
    /\ UNCHANGED fvars
    /\ UNCHANGED <<alive, comps, parent, nextId, poisoned, queue, dpc, batch,
                   holder, enqRes, nEnq, sent, applied>>

(* AppRef::world() on a poisoned mutex: lock().unwrap() panics in the task;
   unwinding drops the futures its body holds. *)
TaskLockPoisoned(t) ==
    /\ tstate[t] = "running"
    /\ poisoned
    /\ \A c \in HeldBy(t) : tstate[c] # "locked"
    /\ tstate' = [DropFutures(tstate, HeldBy(t)) EXCEPT ![t] = "panicked"]
    /\ FragsDropped(HeldBy(t) \cup {t})
    /\ UNCHANGED <<bvars, nvars, rowvars, dvars>>
    /\ UNCHANGED rvars
    /\ UNCHANGED <<alive, comps, parent, nextId, lock, poisoned, queue, dpc,
                   batch, holder, enqRes, nEnq, sent, applied>>

(* FragmentRef::set on a live entity. *)
TaskSet(t, c) ==
    /\ tstate[t] = "locked"
    /\ t \in alive
    /\ comps' = [comps EXCEPT ![t] = @ \cup {c}]
    /\ UNCHANGED <<bvars, nvars, rowvars, dvars>>
    /\ UNCHANGED rvars
    /\ UNCHANGED fvars
    /\ UNCHANGED <<alive, parent, nextId, lock, poisoned, queue, dpc, batch,
                   tstate, holder, enqRes, nEnq, sent, applied>>

(* FragmentRef::set on a despawned entity: world.set returns Err, unwrap
   panics while the MutexGuard is held, which poisons the mutex. *)
TaskSetGone(t) ==
    /\ tstate[t] = "locked"
    /\ t \notin alive
    /\ \A c \in HeldBy(t) : tstate[c] # "locked"
    /\ tstate' = [DropFutures(tstate, HeldBy(t)) EXCEPT ![t] = "panicked"]
    /\ FragsDropped(HeldBy(t) \cup {t})
    /\ poisoned' = TRUE
    /\ lock' = "free"
    /\ UNCHANGED <<bvars, nvars, rowvars, dvars>>
    /\ UNCHANGED rvars
    /\ UNCHANGED <<alive, comps, parent, nextId, queue, dpc, batch, holder,
                   enqRes, nEnq, sent, applied>>

(* The FragmentRef is dropped at the end of the statement. *)
TaskUnlock(t) ==
    /\ tstate[t] = "locked"
    /\ lock' = "free"
    /\ tstate' = [tstate EXCEPT ![t] = "running"]
    /\ UNCHANGED <<bvars, nvars, rowvars, dvars>>
    /\ UNCHANGED rvars
    /\ UNCHANGED fvars
    /\ UNCHANGED <<alive, comps, parent, nextId, poisoned, queue, dpc, batch,
                   holder, enqRes, nEnq, sent, applied>>

(* Fragment::spawn(world, app, Some(parent)): a new entity with the widget
   tag and child_of(parent). *)
SpawnComps == {WidgetTag}

(* builder.spawn(world) in Fragment::spawn called by the Fragment of t: the
   World hands out an id no entity has had. *)
SpawnIdOfParent(t) == t
SpawnId(t) == nextId

(* WidgetFuture::new(child.id, widget.mount(child)) in attach, where `id` is
   the attaching Fragment's own id: the future stores the child's. *)
FutureIdOfParent(child, par) == par
FutureId(child, par) == child

(* Fragment::attach: locks the World for the spawn of the child, and returns
   WidgetFuture::new(child.id, widget.mount(child)), not yet polled. *)
TaskAttach(t) ==
    /\ tstate[t] = "running"
    /\ ~poisoned
    /\ lock = "free"
    /\ nextId <= MaxEntities
    /\ LET child == SpawnId(t)
       IN /\ alive' = alive \cup {child}
          /\ comps' = [comps EXCEPT ![child] = SpawnComps]
          /\ parent' = [parent EXCEPT ![child] = t]
          /\ tstate' = [tstate EXCEPT ![child] = "unpolled"]
          /\ holder' = [holder EXCEPT ![child] = t]
          /\ nspawn' = [nspawn EXCEPT ![child] = @ + 1]
          /\ wfid' = [wfid EXCEPT ![child] = FutureId(child, t)]
    /\ nextId' = nextId + 1
    /\ UNCHANGED <<bvars, nvars, rowvars, dvars>>
    /\ UNCHANGED rvars
    /\ UNCHANGED <<nput, srcParent>>
    /\ UNCHANGED <<lock, poisoned, queue, dpc, batch, enqRes, nEnq, sent,
                   applied>>

(* The fragment's components as Fragment::put leaves them: put of
   fragments-core builds the new mount future and touches nothing
   (FragmentRef::clear is never called). *)
PutComps(cs) == cs

(* The child_of relation of the fragment's entity as Fragment::put leaves
   it. put of fragments-core touches nothing. put of src/widget.rs calls
   self.write().clear() first, and clear ends with
   entity_mut(id).unwrap().retain(|k| k == widget().key()): every component
   whose key is not the widget tag's is removed from the entity, and
   child_of(parent) is such a component. *)
PutParent(p) == p
ClearParent(p) == NoEnt

(* Fragment::put: widget.mount(Fragment { id: self.id, app }) is created; the
   task is about to run the new widget's mount body against the same id.
   srcParent records what put of src/widget.rs makes of the same entity. *)
TaskPut(t) ==
    /\ tstate[t] = "running"
    /\ nput[t] < MaxNested
    /\ comps' = [comps EXCEPT ![t] = PutComps(@)]
    /\ parent' = [parent EXCEPT ![t] = PutParent(@)]
    /\ srcParent' = [srcParent EXCEPT ![t] = ClearParent(parent[t])]
    /\ tstate' = [tstate EXCEPT ![t] = "put"]
    /\ nput' = [nput EXCEPT ![t] = @ + 1]
    /\ UNCHANGED <<bvars, nvars, rowvars, dvars>>
    /\ UNCHANGED rvars
    /\ UNCHANGED <<nspawn, wfid>>
    /\ UNCHANGED <<alive, nextId, lock, poisoned, queue, dpc, batch,
                   holder, enqRes, nEnq, sent, applied>>

(* The mount future of the widget given to put resolves: put returns its
   output, and the Fragment put made is dropped with the future. *)
TaskPutReturn(t) ==
    /\ tstate[t] = "running"
    /\ nput[t] > 0
    /\ nput' = [nput EXCEPT ![t] = @ - 1]
    /\ UNCHANGED <<bvars, nvars, rowvars, dvars>>
    /\ UNCHANGED rvars
    /\ UNCHANGED <<nspawn, wfid, srcParent>>
    /\ UNCHANGED <<alive, comps, parent, nextId, lock, poisoned, queue, dpc,
                   batch, tstate, holder, enqRes, nEnq, sent, applied>>

(* The first step of the mount body of the widget given to put. *)
TaskMountPut(t) ==
    /\ tstate[t] = "put"
    /\ tstate' = [tstate EXCEPT ![t] = "running"]
    /\ UNCHANGED <<bvars, nvars, rowvars, dvars>>
    /\ UNCHANGED rvars
    /\ UNCHANGED fvars
    /\ UNCHANGED <<alive, comps, parent, nextId, lock, poisoned, queue, dpc,
                   batch, holder, enqRes, nEnq, sent, applied>>

(* AppRef::enqueue(event): tx.send(event), Err when the channel is closed. *)
TaskEnqueue(t, ev) ==
    /\ tstate[t] = "running"
    /\ ev.id < nextId
    /\ nEnq < MaxEvents
    /\ nEnq' = nEnq + 1
    /\ IF ChanOpen
       THEN /\ queue' = Append(queue, ev)
            /\ sent' = Append(sent, ev)
            /\ enqRes' = "ok"
       ELSE /\ enqRes' = "err"
            /\ UNCHANGED <<queue, sent>>
    /\ UNCHANGED <<bvars, nvars, rowvars, dvars>>
    /\ UNCHANGED rvars
    /\ UNCHANGED fvars
    /\ UNCHANGED <<alive, comps, parent, nextId, lock, poisoned, dpc, batch,
                   tstate, holder, applied>>

(* The body of t drops the unfinished WidgetFuture of its child c. Neither
   WidgetFuture nor Fragment implements Drop: nothing is enqueued and the
   World is not touched. *)
TaskDropChild(t, c) ==
    /\ tstate[t] = "running"
    /\ holder[c] = t
    /\ tstate[c] \in {"unpolled", "running", "put"}
    /\ \A d \in HeldBy(c) : tstate[d] # "locked"
    /\ tstate' = DropFutures(tstate, {c} \cup HeldBy(c))
    /\ FragsDropped({c} \cup HeldBy(c))
    /\ UNCHANGED <<bvars, nvars, rowvars, dvars>>
    /\ UNCHANGED rvars
    /\ UNCHANGED <<alive, comps, parent, nextId, lock, poisoned, queue, dpc,
                   batch, holder, enqRes, nEnq, sent, applied>>

(* What a mount future can resolve with: a value, or a value that signals
   the widget's failure (W::Output is the widget's choice). *)
RootOutput == {"ok", "failure"}

(* App::run of fragments-core: `root.mount(state).await` is the function's
   tail expression, so run returns the root's Output. *)
CoreRunResult(o) == o

(* App::run of src/app.rs: handle_tree awaits root.render(&mut state), drops
   what it returned and yields Ok(()); after the select!, run returns
   Ok(()). *)
SrcRunResult(o) == "ok"

(* The mount future of t resolves with o; for the root, App::run returns. *)
RunReturns(t, o) ==
    IF t = Root
    THEN /\ rootOut' = o
         /\ coreRes' = CoreRunResult(o)
         /\ srcRes' = SrcRunResult(o)
    ELSE UNCHANGED rvars

(* The mount body returns: its Fragment and the futures it still holds are
   dropped. The root's return is the return of App::run. *)
TaskReturn(t) ==
    /\ tstate[t] = "running"
    /\ \A c \in HeldBy(t) : tstate[c] # "locked"
    /\ tstate' = [DropFutures(tstate, HeldBy(t)) EXCEPT ![t] = "done"]
    /\ FragsDropped(HeldBy(t) \cup {t})
    /\ \E o \in RootOutput : RunReturns(t, o)
    /\ UNCHANGED <<bvars, nvars, rowvars, dvars>>
    /\ UNCHANGED <<alive, comps, parent, nextId, lock, poisoned, queue, dpc,
                   batch, holder, enqRes, nEnq, sent, applied>>

(* App::run has returned. *)
AppReturned == tstate[Root] = "done"

Next ==
    \/ DispRecv
    \/ DispLock
    \/ DispLockPoisoned
    \/ DispExit
    \/ DispDespawnOk
    \/ DispDespawnErr
    \/ DispClosed
    \/ \E t \in Ent : TaskPoll(t)
    \/ \E t \in Ent : TaskLock(t)
    \/ \E t \in Ent : TaskLockPoisoned(t)
    \/ \E t \in Ent, c \in Comp : TaskSet(t, c)
    \/ \E t \in Ent : TaskSetGone(t)
    \/ \E t \in Ent : TaskUnlock(t)
    \/ \E t \in Ent : TaskAttach(t)
    \/ \E t \in Ent : TaskPut(t)
    \/ \E t \in Ent : TaskMountPut(t)
    \/ \E t \in Ent : TaskPutReturn(t)
    \/ \E t \in Ent, ev \in Event : TaskEnqueue(t, ev)
    \/ \E t \in Ent, c \in Ent : TaskDropChild(t, c)
    \/ \E t \in Ent : TaskReturn(t)

Spec == Init /\ [][Next]_vars

(* Scheduling of the locking design. The dispatcher runs on a tokio worker
   and goes on whenever it can; its world.lock() is served whenever the mutex
   is free again and again. A FragmentRef is not Send and a mount future is
   (async_trait), so a task that holds the guard does not suspend: it
   releases the mutex. What a widget does otherwise is up to the widget. *)
DispStep ==
    \/ DispRecv
    \/ DispLockPoisoned
    \/ DispExit
    \/ DispDespawnOk
    \/ DispDespawnErr
    \/ DispClosed

SpecFair ==
    /\ Spec
    /\ WF_vars(DispStep)
    /\ SF_vars(DispLock)
    /\ \A t \in Ent : WF_vars(TaskUnlock(t))

-----------------------------------------------------------------------------
(* Properties of the locking design. *)

IsPrefix(s, t) == Len(s) <= Len(t) /\ SubSeq(t, 1, Len(s)) = s

InSeq(ev, s) == \E i \in 1..Len(s) : s[i] = ev

(* A Despawn of c, or of a fragment whose body holds c's future, is in the
   channel or in the dispatcher's batch. *)
DespawnPending(c) ==
    \E a \in Ent :
        /\ a = c \/ c \in HeldBy(a)
        /\ InSeq(DespawnEv(a), queue) \/ InSeq(DespawnEv(a), batch)

(* C1: a child whose WidgetFuture was dropped before it completed (before
   its first poll or after some polls) is absent from the Store, or a
   Despawn for it is enqueued. *)
C1_DroppedFutureDespawnsChild ==
    \A c \in Ent : tstate[c] = "dropped" => c \notin alive \/ DespawnPending(c)

(* C2: when the dispatcher handles Despawn(E) of a live E, then afterwards
   neither E nor any transitive child_of-descendant of E is alive, and none
   of them keeps a component. *)
C2_DespawnCascades ==
    [][(/\ dpc = "batch"
        /\ Head(batch).type = "Despawn"
        /\ Head(batch).id \in alive
        /\ applied' # applied)
       => \A e \in {Head(batch).id} \cup Descendants(parent, Head(batch).id) :
             e \notin alive' /\ comps'[e] = {}]_vars

(* C3: an error while applying an event (a Despawn of an entity that is
   already despawned) never ends the dispatcher loop. *)
C3_ErrorNeverAbortsLoop == dpc # "failed"

ExitProcessed == InSeq(ExitEv, applied)

(* C4: once the dispatcher has handled Exit the loop has terminated, and
   every later AppRef::enqueue returns an error and queues nothing. *)
C4_EnqueueFailsAfterExit ==
    /\ [](ExitProcessed => dpc = "exited" /\ queue = <<>> /\ batch = <<>>)
    /\ [][ExitProcessed =>
            /\ queue' = queue
            /\ sent' = sent
            /\ applied' = applied
            /\ dpc' = dpc
            /\ (nEnq' # nEnq => enqRes' = "err")]_vars

(* An enqueue called after Exit was handled returned an error. *)
C4_Witness ==
    /\ sent = <<ExitEv>>
    /\ applied = <<ExitEv>>
    /\ nEnq = 2
    /\ enqRes = "err"

(* C5: App::run has returned as soon as the dispatcher has handled Exit
   (or the root's mount future has resolved). *)
C5_ExitReturnsRun == dpc = "exited" => AppReturned

(* C6, as claimed: every enqueued event is consumed exactly once, in FIFO
   order: when nothing is left in the channel or in the batch, the events
   consumed are the events enqueued. *)
C6_EveryEventConsumed == (queue = <<>> /\ batch = <<>>) => applied = sent

(* The loop has ended without draining the channel: Exit, a failed Despawn,
   a poisoned World lock. *)
LoopEnded == dpc \in {"exited", "failed", "panicked"}

(* C6, amended: events are consumed in the order they were enqueued, each at
   most once; while the loop has not ended on Exit, on a failed Despawn or on
   a poisoned lock, every enqueued event is consumed or still waiting, in
   order; the event that ends the loop is the last one consumed. *)
C6_FifoUntilLoopEnds ==
    /\ IsPrefix(applied, sent)
    /\ ~LoopEnded => sent = applied \o batch \o queue
    /\ dpc = "exited" => applied[Len(applied)] = ExitEv
    /\ \A i \in 1..Len(applied) : applied[i] = ExitEv => i = Len(applied)

(* Two different events were consumed, and the loop still runs. *)
C6_Witness ==
    /\ Len(applied) = 2
    /\ applied[1] # applied[2]
    /\ applied = sent
    /\ dpc = "recv"

(* C7: when the widget given to put is about to be mounted, the fragment has
   no child left and carries the widget tag and nothing else. *)
C7_PutClearsFragment ==
    \A t \in Ent :
        tstate[t] = "put" =>
            /\ Children(parent, t) \cap alive = {}
            /\ comps[t] = {WidgetTag}

(* C12, as claimed: at every moment the live Fragment values have pairwise
   distinct entity ids: no entity is the id of two of them. *)
C12_FragmentsDistinct == \A e \in Ent : nspawn[e] + nput[e] <= 1

(* C12, amended: the live Fragments made by Fragment::spawn (the root's and
   those of attach) have pairwise distinct entity ids; a second Fragment on
   an entity is one that Fragment::put made from its receiver. *)
C12_SpawnedFragmentsDistinct == \A e \in Ent : nspawn[e] <= 1

(* The root has attached a child and is inside a put: three live Fragments
   on two entities. *)
C12_Witness ==
    /\ nspawn[Root] = 1
    /\ nput[Root] = 1
    /\ \E c \in Ent \ {Root} : nspawn[c] = 1 /\ tstate[c] \in Live

(* C13: the entity of every Fragment that a live widget task holds is alive
   in the Store. *)
C13_LiveFragmentEntityAlive == \A t \in Ent : tstate[t] \in Live => t \in alive

(* C14: a write (or an attach) on a Fragment whose entity was despawned
   never panics the calling task. *)
C14_GoneNeverPanics ==
    [][\A t \in Ent :
          (t \notin alive /\ tstate[t] \in {"running", "locked"})
              => tstate'[t] # "panicked"]_vars

(* C15: once the dispatcher has applied Despawn(P), no write of a Fragment
   attached under P (directly or transitively) changes the Store. *)
C15_NoZombieWrites ==
    [][\A p \in Ent : \A c \in Descendants(holder, p) :
          (InSeq(DespawnEv(p), applied) /\ tstate[c] = "locked")
              => comps'[c] = comps[c]]_vars

(* C19: Fragment::attach on the Fragment of entity P spawns, in the call,
   exactly one new entity C with the widget tag and child_of(P); the
   returned WidgetFuture is not yet polled, its id() is C, and C is the
   entity of the one Fragment handed to the child's mount. *)
C19_AttachSpawnsChild ==
    [][nextId' # nextId =>
          \E p \in Ent :
              LET c == nextId
              IN /\ tstate[p] = "running"
                 /\ c \notin alive
                 /\ {e \in alive' \ alive : parent'[e] = p} = {c}
                 /\ WidgetTag \in comps'[c]
                 /\ holder'[c] = p
                 /\ tstate'[c] = "unpolled"
                 /\ wfid'[c] = c
                 /\ nspawn'[c] = 1 /\ nput'[c] = 0]_vars

(* A child was attached and its future not yet polled. *)
C19_Witness ==
    \E c \in Ent \ {Root} :
        /\ tstate[c] = "unpolled"
        /\ wfid[c] = c
        /\ c \in alive
        /\ parent[c] = Root
        /\ comps[c] = {WidgetTag}

(* C23: when the root's mount future has resolved with an Output, a value or
   a failure, App::run has returned exactly that Output, in fragments-core
   and in src/app.rs. *)
C23_RunReturnsRootOutput ==
    rootOut # "none" => (coreRes = rootOut /\ srcRes = rootOut)

(* App::run has ended with a failure its caller sees: it unwound with a
   panic, or it returned a failure value. *)
RunFailed == tstate[Root] = "panicked" \/ coreRes = "failure"

(* C27: a failure of the dispatcher is surfaced. Once the dispatcher task
   has ended with an error, or with the panic of world.lock().unwrap() on
   the mutex a panicking widget poisoned, App::run ends with a visible
   failure: it does not keep running with a dead dispatcher. *)
C27_DispatcherFailureSurfaced ==
    (dpc \in {"failed", "panicked"}) ~> RunFailed

(* C28: the dispatcher applies a whole batch under one acquisition of the
   World lock. While events of a batch are still to be handled the
   dispatcher holds the lock, no widget task holds or obtains it, and the
   World changes only by the dispatcher handling the next event of the
   batch. *)
C28_BatchUnderOneLock ==
    /\ [](dpc = "batch" =>
            /\ lock = "disp"
            /\ batch # <<>>
            /\ \A t \in Ent : tstate[t] # "locked")
    /\ [][dpc = "batch" =>
            /\ \A t \in Ent : tstate'[t] # "locked"
            /\ (alive' # alive \/ comps' # comps \/ parent' # parent)
                  => (applied' = Append(applied, Head(batch)) /\ nextId' = nextId)
            /\ batch' # batch => (applied' # applied /\ lock' # "task")]_vars

(* The dispatcher holds the lock for a batch of two events, and a widget
   task is running beside it. *)
C28_Witness ==
    /\ dpc = "batch"
    /\ lock = "disp"
    /\ Len(batch) = 2
    /\ \E t \in Ent : tstate[t] = "running"

(* C22: no task of the locking design locks the World again while it holds
   a FragmentRef, and then every request for the World lock is granted: the
   dispatcher, once it asks for the lock for a received event, eventually
   holds it and handles the batch. *)
C22_LockEventuallyAcquired == (dpc = "lock") ~> (dpc = "batch")

(* C31: once the dispatcher has handled Exit, no event behind Exit, of the
   same drained batch or enqueued later, is ever applied: Exit stays the
   last event applied, the dispatcher holds the World lock no more, no
   entity is despawned and no component removed, and the World changes only
   in the step of a widget task that locks it (a write under a FragmentRef,
   or the spawn of an attach). *)
C31_NothingAppliedAfterExit ==
    /\ [](ExitProcessed =>
            /\ applied[Len(applied)] = ExitEv
            /\ batch = <<>>
            /\ lock # "disp")
    /\ [][ExitProcessed =>
            /\ applied' = applied
            /\ alive \subseteq alive'
            /\ \A e \in Ent : comps[e] \subseteq comps'[e]
            /\ (alive' # alive \/ comps' # comps \/ parent' # parent) =>
                  \E t \in Ent :
                      \/ tstate[t] = "locked" /\ lock = "task"
                      \/ tstate[t] = "running" /\ lock = "free"
                            /\ nextId' = nextId + 1]_vars

(* Exit was handled with a Despawn of the root behind it in the channel;
   the Despawn was not applied: the root is alive, carries the component it
   wrote, and holds the World lock, which it took after Exit was handled. *)
C31_Witness ==
    /\ sent = <<ExitEv, DespawnEv(Root)>>
    /\ applied = <<ExitEv>>
    /\ Root \in alive
    /\ Content \in comps[Root]
    /\ tstate[Root] = "locked"

(* C32: put keeps the fragment in the tree. When Fragment::put runs on a
   fragment whose entity has the relation child_of(P), the entity has
   child_of(P) after the put as well, with put of fragments-core and with
   put of src/widget.rs. *)
C32_PutKeepsParent ==
    [][\A t \in Ent :
          (nput'[t] > nput[t] /\ parent[t] # NoEnt)
              => (parent'[t] = parent[t] /\ srcParent'[t] = parent[t])]_vars

-----------------------------------------------------------------------------
(* The buffered design: State, StateRef, EffectHandle (src/state.rs) and
   FragmentState, FragmentData, FragmentFuture (src/fragment.rs).

   Slot s stands for one fragment: the future that renders it (fst), its
   FragmentState once spawned (fent, buf), and its flush effect, whose
   EffectKey is s. *)

(* state.rs Event: Schedule carries the closure of FragmentState::new for
   slot s; RunEffect and RemoveEffect carry an EffectKey. *)
ScheduleEv(s) == [type |-> "Schedule", slot |-> s]
RunEffectEv(k) == [type |-> "RunEffect", slot |-> k]
RemoveEffectEv(k) == [type |-> "RemoveEffect", slot |-> k]

(* flume: send succeeds while the Receiver exists. State keeps it until run
   takes it, and run drops it when it ends or unwinds. *)
BChanOpen == brun \in {"new", "running"}

(* World::spawn hands out the next unused id; NewEnt(k) is the k-th from now. *)
NewEnt(k) == Cardinality({i \in BEnt : bkind[i] # "none"}) + k

UnusedSlot == {s \in Slot : fst[s] = "none"}
FreshSlot == CHOOSE s \in UnusedSlot : \A u \in UnusedSlot : s <= u

(* The Arc<RwLock<FragmentData>> has a strong reference: the rendering task
   holds its FragmentState. *)
DataAlive(s) == fst[s] \in {"idle", "guard", "flush"}

(* A FragmentWriteGuard holds the RwLock of slot s. *)
WriteLocked(s) == fst[s] \in {"guard", "flush"}

(* The flush effect takes data.write(): it waits while a guard is held. *)
EffectCanLockAlways(k) == TRUE
EffectCanLock(k) == ~WriteLocked(k)

MergeKeepWorld(w, b) == [c \in BComp |-> IF w[c] # 0 THEN w[c] ELSE b[c]]

(* world.set_with(id, &mut components): every buffered component is set. *)
Merge(w, b) == [c \in BComp |-> IF b[c] # 0 THEN b[c] ELSE w[c]]

(* The fragment's content as its widget sees it: the World's values overlaid
   with the pending buffer. *)
FragContent(s) == Merge(bworld[fent[s]], buf[s])

(* The futures dropped with s's future: those s's body holds, and theirs. *)
FHeldBy(s) == Descendants(fholder, s)

BLive == {"unpolled", "wait", "idle", "bare", "guard", "flush"}

(* EffectHandle::drop of each slot of S (locals are dropped last-declared
   first): StateRef::remove_effect sends RemoveEffect and ignores a closed
   channel. *)
RECURSIVE RemoveEvents(_)
RemoveEvents(S) ==
    IF S = {} THEN <<>>
    ELSE LET m == CHOOSE x \in S : \A y \in S : x >= y
         IN <<RemoveEffectEv(m)>> \o RemoveEvents(S \ {m})

SendRemoves(q, S) == IF BChanOpen THEN q \o RemoveEvents(S) ELSE q

(* The futures of D end without completing; the FragmentData of those that
   had one is dropped with its buffer. *)
FDropped(D) ==
    [x \in Slot |-> IF x \in D /\ fst[x] \in BLive THEN "dropped" ELSE fst[x]]

BufDropped(D) == [x \in Slot |-> IF x \in D THEN NoValues ELSE buf[x]]

InsertKeyFirst(reg) == 1

(* State::create_effect: self.effects.insert(f) on a SlotMap from which
   nothing is ever removed (the RemoveEffect arm is todo!()): the key's index
   is the next slot of the map, one past the entries it holds. *)
InsertKey(reg) == Cardinality(reg) + 1

(* State::spawn_fragment, called on the State before run: world.spawn(),
   then FragmentState::spawn(self, None), which spawns the fragment's entity
   and registers its flush effect. *)
SpawnFragment ==
    /\ brun = "new"
    /\ UnusedSlot # {}
    /\ LET s == FreshSlot
           blank == NewEnt(1)
           id == NewEnt(2)
       IN /\ bkind' = [bkind EXCEPT ![blank] = "blank", ![id] = "fragment"]
          /\ effects' = effects \cup {s}
          /\ fst' = [fst EXCEPT ![s] = "idle"]
          /\ fent' = [fent EXCEPT ![s] = id]
          /\ fkey' = [fkey EXCEPT ![s] = InsertKey(effects)]
    /\ UNCHANGED <<brun, bq, bworld, battached, fholder, buf, commits, lastSet,
                   nGuards>>
    /\ UNCHANGED <<avars, nvars, rowvars, dvars, promise>>

(* State::run is called: it takes events_rx. *)
StartRun ==
    /\ brun = "new"
    /\ brun' = "running"
    /\ UNCHANGED <<bq, bkind, bworld, battached, effects, fst, fent, fholder, buf,
                   commits, lastSet, nGuards>>
    /\ UNCHANGED <<avars, nvars, rowvars, dvars, promise, fkey>>

(* Event::Schedule(effect) => effect(&mut self), for the closure of
   schedule_async in FragmentState::new: FragmentState::spawn(state, parent),
   then tx.send(value).ok(). When the receiver is gone the FragmentState is
   dropped here, and its EffectHandle sends RemoveEffect. *)
BSchedule ==
    /\ brun = "running"
    /\ bq # <<>>
    /\ Head(bq).type = "Schedule"
    /\ LET s == Head(bq).slot
           id == NewEnt(1)
       IN /\ bkind' = [bkind EXCEPT ![id] = "fragment"]
          /\ battached' = [battached EXCEPT ![id] = fent[fholder[s]]]
          /\ effects' = effects \cup {s}
          /\ fent' = [fent EXCEPT ![s] = id]
          /\ fkey' = [fkey EXCEPT ![s] = InsertKey(effects)]
          /\ IF fst[s] = "wait"
             THEN /\ fst' = [fst EXCEPT ![s] = "idle"]
                  /\ bq' = Tail(bq)
             ELSE /\ fst' = fst
                  /\ bq' = Append(Tail(bq), RemoveEffectEv(s))
    /\ UNCHANGED <<brun, bworld, fholder, buf, commits, lastSet, nGuards>>
    /\ UNCHANGED <<avars, nvars, rowvars, dvars, promise>>

(* Event::RunEffect(key) for a registered key whose FragmentData is alive:
   weak.upgrade() succeeds, data.write() is taken, set_with moves the buffer
   into the World. *)
BRunEffect ==
    /\ brun = "running"
    /\ bq # <<>>
    /\ Head(bq).type = "RunEffect"
    /\ Head(bq).slot \in effects
    /\ DataAlive(Head(bq).slot)
    /\ EffectCanLock(Head(bq).slot)
    /\ LET k == Head(bq).slot
       IN /\ bworld' = [bworld EXCEPT ![fent[k]] = Merge(@, buf[k])]
          /\ buf' = [buf EXCEPT ![k] = NoValues]
    /\ bq' = Tail(bq)
    /\ UNCHANGED <<brun, bkind, battached, effects, fst, fent, fholder, commits,
                   lastSet, nGuards>>
    /\ UNCHANGED <<avars, nvars, rowvars, dvars, promise, fkey>>

BRunEffectGoneStrong ==
    /\ brun = "running"
    /\ bq # <<>>
    /\ Head(bq).type = "RunEffect"
    /\ Head(bq).slot \in effects
    /\ ~DataAlive(Head(bq).slot)
    /\ bworld' = [bworld EXCEPT ![fent[Head(bq).slot]] =
                                    Merge(@, lastSet[Head(bq).slot])]
    /\ bq' = Tail(bq)
    /\ UNCHANGED <<brun, bkind, battached, effects, fst, fent, fholder,
                   buf, commits, lastSet, nGuards>>
    /\ UNCHANGED <<avars, nvars, rowvars, dvars, promise, fkey>>

(* Event::RunEffect(key) for a registered key whose FragmentData is gone:
   weak.upgrade() is None and the effect does nothing. *)
BRunEffectGone ==
    /\ brun = "running"
    /\ bq # <<>>
    /\ Head(bq).type = "RunEffect"
    /\ Head(bq).slot \in effects
    /\ ~DataAlive(Head(bq).slot)
    /\ bq' = Tail(bq)
    /\ UNCHANGED <<brun, bkind, bworld, battached, effects, fst, fent, fholder,
                   buf, commits, lastSet, nGuards>>
    /\ UNCHANGED <<avars, nvars, rowvars, dvars, promise, fkey>>

(* Event::RunEffect(key) for a key that is not in the registry:
   effects.get_mut(key).expect("Effect does not exist") panics; the loop
   unwinds and drops the receiver. *)
BRunEffectMissing ==
    /\ brun = "running"
    /\ bq # <<>>
    /\ Head(bq).type = "RunEffect"
    /\ Head(bq).slot \notin effects
    /\ brun' = "panicked"
    /\ bq' = <<>>
    /\ UNCHANGED <<bkind, bworld, battached, effects, fst, fent, fholder, buf,
                   commits, lastSet, nGuards>>
    /\ UNCHANGED <<avars, nvars, rowvars, dvars, promise, fkey>>

(* Event::RemoveEffect(_) => todo!(): the loop panics. *)
BRemoveEffect ==
    /\ brun = "running"
    /\ bq # <<>>
    /\ Head(bq).type = "RemoveEffect"
    /\ brun' = "panicked"
    /\ bq' = <<>>
    /\ UNCHANGED <<bkind, bworld, battached, effects, fst, fent, fholder, buf,
                   commits, lastSet, nGuards>>
    /\ UNCHANGED <<avars, nvars, rowvars, dvars, promise, fkey>>

(* A root future is polled by the program; an attached future is polled by
   the body that holds it, so a whole tree runs on one task. *)
RECURSIVE RootOf(_)
RootOf(s) == IF fholder[s] = NoEnt THEN s ELSE RootOf(fholder[s])

TaskTree(s) == {x \in Slot : fst[x] # "none" /\ RootOf(x) = RootOf(s)}

(* Another fragment of s's task is inside a write guard. A guard is not Send
   and render's future must be Send, so no guard is held across an await:
   nothing else of the task runs until the guard is dropped. *)
Busy(s) == \E x \in TaskTree(s) \ {s} : WriteLocked(x)

(* A panic in the body of s unwinds its whole task: every future of the tree
   is dropped. It happens only once the channel is closed, so the
   EffectHandles' RemoveEffect sends fail and are ignored. *)
Unwind(s) ==
    /\ fst' = [FDropped(TaskTree(s)) EXCEPT ![s] = "panicked"]
    /\ buf' = BufDropped(TaskTree(s))
    /\ UNCHANGED <<brun, bq, bkind, bworld, battached, effects, fent, fholder,
                   commits, lastSet, nGuards>>
    /\ UNCHANGED <<avars, nvars, rowvars, dvars, promise, fkey>>

(* First poll of an attached future: FragmentState::new calls
   schedule_async, which sends Schedule and awaits the oneshot. *)
FPoll(s) ==
    /\ fst[s] = "unpolled"
    /\ ~Busy(s)
    /\ BChanOpen
    /\ bq' = Append(bq, ScheduleEv(s))
    /\ fst' = [fst EXCEPT ![s] = "wait"]
    /\ UNCHANGED <<brun, bkind, bworld, battached, effects, fent, fholder, buf,
                   commits, lastSet, nGuards>>
    /\ UNCHANGED <<avars, nvars, rowvars, dvars, promise, fkey>>

(* The unwraps on the channel, once the dispatcher is gone: the send of
   schedule_async on a first poll, its rx.await when the queued closure is
   dropped unrun, and the send of run_effect in the drop of a guard. Each
   panics. *)
FPanicClosed(s) ==
    /\ fst[s] \in {"unpolled", "wait", "guard"}
    /\ ~Busy(s)
    /\ ~BChanOpen
    /\ Unwind(s)

(* FragmentState::write: data.write().unwrap(). The flush effect holds the
   lock only within one dispatcher step, so the guard is granted here. *)
FWrite(s) ==
    /\ fst[s] = "idle"
    /\ ~Busy(s)
    /\ nGuards < MaxGuards
    /\ fst' = [fst EXCEPT ![s] = "guard"]
    /\ nGuards' = nGuards + 1
    /\ UNCHANGED <<brun, bq, bkind, bworld, battached, effects, fent, fholder,
                   buf, commits, lastSet>>
    /\ UNCHANGED <<avars, nvars, rowvars, dvars, promise, fkey>>

FSetDirect(s, c, v) ==
    /\ fst[s] = "guard"
    /\ bworld' = [bworld EXCEPT ![fent[s]][c] = v]
    /\ UNCHANGED <<brun, bq, bkind, battached, effects, fst, fent, fholder, buf,
                   commits, lastSet, nGuards>>
    /\ UNCHANGED <<avars, nvars, rowvars, dvars, promise, fkey>>

(* FragmentData::set through the guard: components.set(component, value). *)
FSet(s, c, v) ==
    /\ fst[s] = "guard"
    /\ buf' = [buf EXCEPT ![s][c] = v]
    /\ UNCHANGED <<brun, bq, bkind, bworld, battached, effects, fst, fent,
                   fholder, commits, lastSet, nGuards>>
    /\ UNCHANGED <<avars, nvars, rowvars, dvars, promise, fkey>>

(* FragmentWriteGuard::drop: flush -> EffectHandle::schedule ->
   run_effect sends RunEffect(key); the RwLock is still held. commits and
   lastSet record the content the guard leaves behind. *)
FDropGuard(s) ==
    /\ fst[s] = "guard"
    /\ BChanOpen
    /\ bq' = Append(bq, RunEffectEv(s))
    /\ fst' = [fst EXCEPT ![s] = "flush"]
    /\ commits' = [commits EXCEPT ![s] = @ \cup {FragContent(s)}]
    /\ lastSet' = [lastSet EXCEPT ![s] = FragContent(s)]
    /\ UNCHANGED <<brun, bkind, bworld, battached, effects, fent, fholder, buf,
                   nGuards>>
    /\ UNCHANGED <<avars, nvars, rowvars, dvars, promise, fkey>>

FReleaseWhenFlushed(s) ==
    /\ fst[s] = "flush"
    /\ \A i \in 1..Len(bq) : bq[i] # RunEffectEv(s)
    /\ fst' = [fst EXCEPT ![s] = "idle"]
    /\ UNCHANGED <<brun, bq, bkind, bworld, battached, effects, fent, fholder,
                   buf, commits, lastSet, nGuards>>
    /\ UNCHANGED <<avars, nvars, rowvars, dvars, promise, fkey>>

(* The guard's inner RwLockWriteGuard is dropped after flush returns. *)
FRelease(s) ==
    /\ fst[s] = "flush"
    /\ fst' = [fst EXCEPT ![s] = "idle"]
    /\ UNCHANGED <<brun, bq, bkind, bworld, battached, effects, fent, fholder,
                   buf, commits, lastSet, nGuards>>
    /\ UNCHANGED <<avars, nvars, rowvars, dvars, promise, fkey>>

FAttachEager(s) ==
    /\ fst[s] = "idle"
    /\ ~Busy(s)
    /\ UnusedSlot # {}
    /\ BChanOpen
    /\ fst' = [fst EXCEPT ![FreshSlot] = "wait"]
    /\ fholder' = [fholder EXCEPT ![FreshSlot] = s]
    /\ bq' = Append(bq, ScheduleEv(FreshSlot))
    /\ UNCHANGED <<brun, bkind, bworld, battached, effects, fent, buf,
                   commits, lastSet, nGuards>>
    /\ UNCHANGED <<avars, nvars, rowvars, dvars, promise, fkey>>

(* FragmentState::attach: builds the child's future; nothing is sent until
   it is polled. *)
FAttach(s) ==
    /\ fst[s] = "idle"
    /\ ~Busy(s)
    /\ UnusedSlot # {}
    /\ fst' = [fst EXCEPT ![FreshSlot] = "unpolled"]
    /\ fholder' = [fholder EXCEPT ![FreshSlot] = s]
    /\ UNCHANGED <<brun, bq, bkind, bworld, battached, effects, fent, buf,
                   commits, lastSet, nGuards>>
    /\ UNCHANGED <<avars, nvars, rowvars, dvars, promise, fkey>>

(* The body of s drops its FragmentState (the last clone of it) and goes on:
   the FragmentData is dropped with its buffer, and its EffectHandle sends
   RemoveEffect. The futures attach returned do not borrow the
   FragmentState: the body can still poll them. *)
FDropState(s) ==
    /\ fst[s] = "idle"
    /\ ~Busy(s)
    /\ bq' = SendRemoves(bq, {s})
    /\ fst' = [fst EXCEPT ![s] = "bare"]
    /\ buf' = BufDropped({s})
    /\ UNCHANGED <<brun, bkind, bworld, battached, effects, fent, fholder,
                   commits, lastSet, nGuards>>
    /\ UNCHANGED <<avars, nvars, rowvars, dvars, promise, fkey>>

(* The FragmentData of the slots of D that have one is dropped: each
   EffectHandle sends RemoveEffect, children before their holder. *)
DataDropped(D) == {d \in D : fst[d] = "idle"}

(* render returns: the futures it still holds and its FragmentState are
   dropped. *)
FReturn(s) ==
    /\ fst[s] \in {"idle", "bare"}
    /\ ~Busy(s)
    /\ \A d \in FHeldBy(s) : ~WriteLocked(d)
    /\ bq' = SendRemoves(bq, DataDropped(FHeldBy(s) \cup {s}))
    /\ fst' = [FDropped(FHeldBy(s)) EXCEPT ![s] = "done"]
    /\ buf' = BufDropped(FHeldBy(s) \cup {s})
    /\ UNCHANGED <<brun, bkind, bworld, battached, effects, fent, fholder,
                   commits, lastSet, nGuards>>
    /\ UNCHANGED <<avars, nvars, rowvars, dvars, promise, fkey>>

(* A FragmentFuture is dropped by its owner, the program for a root and the
   holder's body for an attached one. FragmentFuture has no Drop impl: only
   the drops of what the future holds run. *)
FDropFuture(s) ==
    /\ fst[s] \in {"unpolled", "wait", "idle", "bare"}
    /\ ~Busy(s)
    /\ \A d \in FHeldBy(s) : ~WriteLocked(d)
    /\ IF fholder[s] = NoEnt THEN TRUE ELSE fst[fholder[s]] \in {"idle", "bare"}
    /\ bq' = SendRemoves(bq, DataDropped(FHeldBy(s) \cup {s}))
    /\ fst' = FDropped(FHeldBy(s) \cup {s})
    /\ buf' = BufDropped(FHeldBy(s) \cup {s})
    /\ UNCHANGED <<brun, bkind, bworld, battached, effects, fent, fholder,
                   commits, lastSet, nGuards>>
    /\ UNCHANGED <<avars, nvars, rowvars, dvars, promise, fkey>>

NextState ==
    \/ SpawnFragment
    \/ StartRun
    \/ BSchedule
    \/ BRunEffect
    \/ BRunEffectGone
    \/ BRemoveEffect
    \/ \E s \in Slot : FPoll(s)
    \/ \E s \in Slot : FPanicClosed(s)
    \/ \E s \in Slot : FWrite(s)
    \/ \E s \in Slot, c \in BComp, v \in Val : FSet(s, c, v)
    \/ \E s \in Slot : FDropGuard(s)
    \/ \E s \in Slot : FRelease(s)
    \/ \E s \in Slot : FAttach(s)
    \/ \E s \in Slot : FDropState(s)
    \/ \E s \in Slot : FReturn(s)
    \/ \E s \in Slot : FDropFuture(s)

SpecState == Init /\ [][NextState]_vars

(* Scheduling of the buffered design. The State::run loop handles the next
   event whenever it can. A write guard is not Send, so it lives within
   synchronous code of a render body: the task that holds one drops it and
   releases the RwLock. What a fragment does otherwise is up to it. *)
RunStep ==
    \/ BSchedule
    \/ BRunEffect
    \/ BRunEffectGone
    \/ BRemoveEffect

SpecStateFair ==
    /\ SpecState
    /\ WF_vars(RunStep)
    /\ \A s \in Slot : WF_vars(FDropGuard(s) \/ FRelease(s))

-----------------------------------------------------------------------------
(* The RunEffect and RemoveEffect arms of State::run on their own: the
   registry, the queued events and the fragments' data are drawn from bounded
   sets, so that the arms are also applied to keys the registry does not
   hold. *)

(* Event::SpawnEntity { parent, completer }: the slot field carries the
   parent (NoEnt: None). Nothing in the crate sends this event; it is drawn
   into the handler's queue like the keys the registry does not hold. *)
SpawnEntityEv(par) == [type |-> "SpawnEntity", slot |-> par]

(* Event::SpawnEntity { parent, completer } => { }: every statement of the
   arm is commented out. No entity is spawned, and the completer is dropped
   at the end of the arm without having been completed. *)
BSpawnEntity ==
    /\ brun = "running"
    /\ bq # <<>>
    /\ Head(bq).type = "SpawnEntity"
    /\ bq' = Tail(bq)
    /\ UNCHANGED <<brun, bkind, bworld, battached, effects, fst, fent, fholder,
                   buf, commits, lastSet, nGuards>>
    /\ UNCHANGED <<avars, nvars, rowvars, dvars, promise, fkey>>

HandlerEvent ==
    {RunEffectEv(k) : k \in Slot} \cup {RemoveEffectEv(k) : k \in Slot}
        \cup {SpawnEntityEv(par) : par \in {NoEnt} \cup Slot}

HandlerQueue == UNION {[1..n -> HandlerEvent] : n \in 0..MaxQueued}

(* A registered key belongs to a fragment whose data is alive or was
   dropped; an unregistered one to no fragment yet, or to a dropped one. *)
HandlerFst(reg) ==
    {f \in [Slot -> {"none", "idle", "done"}] :
        \A s \in Slot : (s \in reg) => f[s] # "none"}

InitHandler ==
    /\ InitApp
    /\ InitNotify
    /\ InitRow
    /\ InitDesync
    /\ promise = 0
    /\ brun = "running"
    /\ bq \in HandlerQueue
    /\ effects \in SUBSET Slot
    /\ fkey = [s \in Slot |-> IF s \in effects THEN s ELSE 0]
    /\ fst \in HandlerFst(effects)
    /\ fent = [s \in Slot |-> IF fst[s] = "none" THEN NoEnt ELSE s]
    /\ bkind = [i \in BEnt |-> IF i \in Slot /\ fst[i] # "none"
                                THEN "fragment" ELSE "none"]
    /\ bworld = [i \in BEnt |-> NoValues]
    /\ battached = [i \in BEnt |-> NoEnt]
    /\ fholder = [s \in Slot |-> NoEnt]
    /\ buf \in [Slot -> {NoValues, [NoValues EXCEPT !["x"] = 1]}]
    /\ \A s \in Slot : fst[s] # "idle" => buf[s] = NoValues
    /\ commits = [s \in Slot |-> {NoValues, buf[s]}]
    /\ lastSet = buf
    /\ nGuards = 0

NextHandler ==
    \/ BRunEffect
    \/ BRunEffectGone
    \/ BRunEffectMissing
    \/ BRemoveEffect
    \/ BSpawnEntity

SpecHandler == InitHandler /\ [][NextHandler]_vars

-----------------------------------------------------------------------------
(* NotifySender / NotifyReceiver (fragments-core/src/notify.rs): the
   receiver's poll and the sender's notify run on different threads, and
   each is two steps on the shared AsyncSignal. The Waker a poll brings is
   named by the poll's number. *)

(* woken.compare_exchange(true, false, ..): succeeds iff woken is true, and
   then leaves it false. *)
CasSucceeds(w) == w

CasKeeps(w) == w
CasLeaves(w) == FALSE

(* NotifyReceiver::poll, first half: the compare_exchange. On success the
   poll returns Ready; otherwise it goes on to set_waker. *)
PollCas ==
    /\ rpc = "idle"
    /\ Len(polls) < MaxPolls
    /\ IF CasSucceeds(woken)
       THEN /\ woken' = CasLeaves(woken)
            /\ polls' = Append(polls, "ready")
            /\ nSince' = 0
            /\ rpc' = "idle"
       ELSE /\ rpc' = "set"
            /\ UNCHANGED <<woken, polls, nSince>>
    /\ UNCHANGED <<waker, spc, wokenWakers, nNotify>>
    /\ UNCHANGED <<avars, bvars, rowvars, dvars>>

(* NotifyReceiver::poll, second half: set_waker(cx.waker().clone()), then
   Poll::Pending. *)
PollSetWaker ==
    /\ rpc = "set"
    /\ waker' = Len(polls) + 1
    /\ polls' = Append(polls, "pending")
    /\ rpc' = "idle"
    /\ UNCHANGED <<woken, spc, wokenWakers, nNotify, nSince>>
    /\ UNCHANGED <<avars, bvars, rowvars, dvars>>

(* AsyncSignal::wake, first half: woken.store(true). *)
NotifyStore ==
    /\ spc = "idle"
    /\ nNotify < MaxNotifies
    /\ woken' = TRUE
    /\ spc' = "stored"
    /\ nNotify' = nNotify + 1
    /\ nSince' = nSince + 1
    /\ UNCHANGED <<waker, rpc, polls, wokenWakers>>
    /\ UNCHANGED <<avars, bvars, rowvars, dvars>>

(* AsyncSignal::wake, second half: the waker stored at this moment, if any,
   is woken. *)
NotifyWake ==
    /\ spc = "stored"
    /\ wokenWakers' = IF waker = 0 THEN wokenWakers ELSE wokenWakers \cup {waker}
    /\ spc' = "idle"
    /\ UNCHANGED <<woken, waker, rpc, polls, nNotify, nSince>>
    /\ UNCHANGED <<avars, bvars, rowvars, dvars>>

NextNotify ==
    \/ PollCas
    \/ PollSetWaker
    \/ NotifyStore
    \/ NotifyWake

SpecNotify == Init /\ [][NextNotify]_vars

(* C16: no lost wake-up. The pair never rests (no poll and no notify under
   way) with woken true, the receiver's latest poll Pending, and the waker
   that poll registered not woken. *)
C16_NoLostWakeup ==
    ~(/\ rpc = "idle"
      /\ spc = "idle"
      /\ woken
      /\ polls # <<>>
      /\ polls[Len(polls)] = "pending"
      /\ waker \notin wokenWakers)

(* C17: notifications coalesce. The compare_exchange of a poll succeeds, and
   the poll returns Ready and clears woken, exactly when notify has stored
   at least once since the latest poll that returned Ready: k >= 1 notifies
   give one Ready, and the poll after it does not return Ready unless notify
   stored again. *)
C17_NotificationsCoalesce ==
    [][(rpc = "idle" /\ (rpc' = "set" \/ Len(polls') > Len(polls)))
       => ((/\ Len(polls') > Len(polls)
            /\ polls'[Len(polls')] = "ready"
            /\ ~woken'
            /\ nSince' = 0)
           <=> nSince >= 1)]_vars

(* Two notifies, then a poll that returned Ready, then one that returned
   Pending. *)
C17_Witness ==
    /\ nNotify = 2
    /\ spc = "idle"
    /\ polls = <<"ready", "pending">>
    /\ nSince = 0
    /\ ~woken

-----------------------------------------------------------------------------
(* Properties of the buffered design. *)

(* C8: batch atomicity of write guards. The values the Store holds for a
   fragment are at every moment the fragment's content as some completed
   guard left it (or the initial, empty content): the writes of one guard
   arrive together, and the batches of consecutive guards do not interleave.
   With guard A setting x:1, y:2 and guard B setting x:2, the Store shows
   nothing, or x=1,y=2, or x=2,y=2. *)
C8_BatchAtomicity ==
    \A s \in Slot : fent[s] # NoEnt => bworld[fent[s]] \in commits[s]

(* Two guards on one fragment, the second overwriting x, both flushed. *)
C8_Witness ==
    \E s \in Slot :
        /\ fent[s] # NoEnt
        /\ nGuards = 2
        /\ [x |-> 1, y |-> 2] \in commits[s]
        /\ lastSet[s] = [x |-> 2, y |-> 2]
        /\ bworld[fent[s]] = [x |-> 2, y |-> 2]
        /\ buf[s] = NoValues

(* C9: every drop of a write guard enqueues RunEffect for the fragment's
   key, and no buffered write is lost: while the dispatcher's channel is
   open, each value the latest completed guard left is in the Store, or is
   still buffered with a RunEffect for the fragment queued. *)
C9_NoBufferedWriteLost ==
    \A s \in Slot :
        (fent[s] # NoEnt /\ BChanOpen /\ fst[s] # "guard") =>
            \A c \in BComp :
                lastSet[s][c] # 0 =>
                    \/ bworld[fent[s]][c] = lastSet[s][c]
                    \/ /\ buf[s][c] = lastSet[s][c]
                       /\ InSeq(RunEffectEv(s), bq)

(* C10: running a stale effect key is a no-op. When the dispatcher takes
   RunEffect(key) for a key the registry does not hold, the Store is
   unchanged and the dispatcher goes on with the events behind it. *)
C10_StaleRunIsNoOp ==
    [][(/\ brun = "running"
        /\ bq # <<>>
        /\ Head(bq).type = "RunEffect"
        /\ Head(bq).slot \notin effects)
       => (/\ bworld' = bworld
           /\ brun' = "running"
           /\ bq' = Tail(bq))]_vars

(* C11: dropping an EffectHandle unregisters its effect. When the dispatcher
   handles the RemoveEffect(key) the drop sent, the key leaves the registry
   and the dispatcher goes on with the events behind it. *)
C11_RemoveEffectUnregisters ==
    [][(/\ brun = "running"
        /\ bq # <<>>
        /\ Head(bq).type = "RemoveEffect"
        /\ Len(bq') < Len(bq) \/ brun' # brun)
       => (/\ Head(bq).slot \notin effects'
           /\ brun' = "running"
           /\ bq' = Tail(bq))]_vars

(* The State::run loop handles the event at the head of the queue: the event
   leaves the queue, and the handler may send one RemoveEffect behind the
   others. *)
HandlesHead ==
    /\ brun = "running"
    /\ bq # <<>>
    /\ \/ bq' = Tail(bq)
       \/ bq' = Append(Tail(bq), RemoveEffectEv(Head(bq).slot))

(* C18: single writer. Once State::run is running, every step that changes
   the World (an entity spawned, an attachment, a component value set) is a
   step of the run loop handling the Schedule or RunEffect event at the head
   of the queue; the steps of the widget tasks leave the World as it is. *)
C18_SingleWriter ==
    [][(brun = "running"
        /\ (bkind' # bkind \/ bworld' # bworld \/ battached' # battached))
       => (HandlesHead /\ Head(bq).type \in {"Schedule", "RunEffect"})]_vars

(* The run loop has spawned an attached fragment's entity and has moved a
   buffered value into the World. *)
C18_Witness ==
    /\ brun = "running"
    /\ \E i \in BEnt : bkind[i] = "fragment" /\ battached[i] # NoEnt
    /\ \E i \in BEnt : bworld[i] # NoValues

(* C20: handling SpawnEntity spawns a new entity and completes the paired
   promise with its id. *)
C20_SpawnEntityCompletes ==
    [][(/\ brun = "running"
        /\ bq # <<>>
        /\ Head(bq).type = "SpawnEntity"
        /\ bq' = Tail(bq))
       => \E i \in BEnt : /\ bkind[i] = "none"
                          /\ bkind'[i] # "none"
                          /\ promise' = i]_vars

(* C24: once the State::run loop has ended and the channel is closed, an
   operation that sends an event through a StateRef reports the closed
   channel to its caller as a failure value: no task panics in it. *)
C24_ClosedChannelSurfaced ==
    [][~BChanOpen =>
          \A s \in Slot : fst'[s] = "panicked" => fst[s] = "panicked"]_vars

(* C25: the ComponentBuffer of a fragment is empty after each flush. When
   FragmentState::spawn returns for slot s, the buffer is empty and the new
   entity carries what the buffer held (the fragment tag, the parent). When
   the run loop has run the flush effect of a live fragment, its buffer is
   empty and every entry it held is the World's value on the fragment's
   entity. *)
C25_BufferEmptyAfterFlush ==
    [][\A s \in Slot :
          /\ fent'[s] # fent[s] =>
                /\ buf'[s] = NoValues
                /\ bkind[fent'[s]] = "none"
                /\ bkind'[fent'[s]] = "fragment"
                /\ fholder[s] # NoEnt => battached'[fent'[s]] = fent[fholder[s]]
          /\ (HandlesHead /\ Head(bq) = RunEffectEv(s) /\ DataAlive(s)) =>
                /\ buf'[s] = NoValues
                /\ \A c \in BComp :
                      buf[s][c] # 0 => bworld'[fent[s]][c] = buf[s][c]]_vars

(* A second flush has replaced the World's value of a component, and the
   buffer is empty. *)
C25_Witness ==
    \E s \in Slot, c \in BComp :
        /\ fst[s] = "idle"
        /\ buf[s] = NoValues
        /\ bworld[fent[s]][c] = 2
        /\ Cardinality(commits[s]) >= 3

(* The slots whose EffectHandle is alive: the handle lives in the
   FragmentData. *)
LiveHandles == {s \in Slot : DataAlive(s)}

(* C26: effect keys are unique among live handles. No two live
   EffectHandles hold the same key, and a key that create_effect hands out
   is not held by a handle that is alive at that moment. *)
C26_EffectKeysUnique ==
    /\ [](\A s, t \in LiveHandles : s # t => fkey[s] # fkey[t])
    /\ [][\A s \in Slot :
             fkey'[s] # fkey[s] =>
                 /\ fkey'[s] # 0
                 /\ \A t \in LiveHandles \ {s} : fkey[t] # fkey'[s]]_vars

(* Two live handles with their keys, both registered. *)
C26_Witness ==
    \E s, t \in LiveHandles :
        /\ s # t
        /\ fkey[s] # 0
        /\ fkey[t] # 0
        /\ fkey[s] # fkey[t]
        /\ {s, t} \subseteq effects

(* C29: an attached child makes no progress unless its FragmentFuture is
   polled. attach only builds the future: nothing is sent and nothing is
   spawned; while the future is unpolled the child has no entity, no effect,
   no queued event and no write; and a step of the child's body is taken
   only while the body that holds its future is suspended in an await (the
   holder polls it), never once the future or its holder is gone. *)
C29_ChildNeedsPoll ==
    /\ [](\A s \in Slot :
            fst[s] = "unpolled" =>
                /\ fent[s] = NoEnt
                /\ fkey[s] = 0
                /\ s \notin effects
                /\ buf[s] = NoValues
                /\ commits[s] = {NoValues}
                /\ \A i \in 1..Len(bq) : bq[i].slot # s)
    /\ [][\A s \in Slot :
            /\ (fst[s] = "none" /\ fst'[s] # "none" /\ fholder'[s] # NoEnt) =>
                  /\ fst'[s] = "unpolled"
                  /\ bq' = bq
                  /\ bkind' = bkind
                  /\ effects' = effects
            /\ (/\ fholder[s] # NoEnt
                /\ ~HandlesHead
                /\ \/ fst'[s] \notin {fst[s], "dropped"}
                   \/ buf'[s] # buf[s]) =>
                  /\ fst[s] \in BLive
                  /\ fst[fholder[s]] \in {"idle", "bare"}]_vars

(* A child was attached and is still unpolled, after its holder has gone on
   to write and flush: the child has no entity. *)
C29_Witness ==
    \E s \in Slot :
        /\ fst[s] = "unpolled"
        /\ fholder[s] # NoEnt
        /\ brun = "running"
        /\ bworld[fent[fholder[s]]] # NoValues
        /\ Cardinality({i \in BEnt : bkind[i] = "fragment"}) = 1

(* C30: schedule_async(f) runs f exactly once, on the run loop and in FIFO
   order, and its future resolves after f has run. For the f of
   FragmentState::new (FragmentState::spawn for slot s): the entity of s is
   spawned at most once and only by the run loop handling the Schedule event
   of s at the head of the queue; a fragment whose new has resolved has its
   entity and its registered effect; and a Schedule event that waits in the
   channel of a running State::run is eventually handled, so that f does
   run. *)
C30_ScheduleAsyncRunsOnce ==
    /\ [][\A s \in Slot :
            (brun = "running" /\ fent'[s] # fent[s]) =>
                /\ fent[s] = NoEnt
                /\ HandlesHead
                /\ Head(bq) = ScheduleEv(s)]_vars
    /\ [](\A s \in Slot :
            (fholder[s] # NoEnt /\ DataAlive(s)) =>
                /\ fent[s] # NoEnt
                /\ s \in effects)
    /\ \A s \in Slot :
          (brun = "running" /\ InSeq(ScheduleEv(s), bq)) ~> (fent[s] # NoEnt)

(* C33: one entity per fragment in the buffered design: every entity alive
   in the World is the entity of exactly one fragment and carries the
   fragment tag. *)
C33_OneEntityPerFragment ==
    \A i \in BEnt :
        bkind[i] # "none" =>
            /\ bkind[i] = "fragment"
            /\ Cardinality({s \in Slot : fent[s] = i}) = 1

(* C34: convergence of buffered writes. For a fragment F, once the run loop
   has processed every RunEffect that F's write guards enqueued (none is
   left in the channel, and the loop did not end with events unprocessed),
   the Store's value of each component of F is the last value set for it
   through a write guard of F, whatever the interleaving of guard drops and
   dispatcher steps. *)
C34_BufferedWritesConverge ==
    \A s \in Slot :
        (fent[s] # NoEnt /\ BChanOpen /\ ~InSeq(RunEffectEv(s), bq)) =>
            \A c \in BComp :
                lastSet[s][c] # 0 => bworld[fent[s]][c] = lastSet[s][c]

(* Every FragmentState of slot s, spawned earlier, has been dropped. *)
HandlesDropped(s) ==
    /\ fent[s] # NoEnt
    /\ fst[s] \in {"bare", "done", "dropped", "panicked"}

(* C35: the flush effect holds only a weak reference to the fragment's
   data. A registered effect does not keep the FragmentData alive: once
   every FragmentState of the fragment is dropped, the data is gone with
   its buffer while the effect is still in the registry. When the run loop
   then runs the effect, the Store is unchanged and the loop goes on. *)
C35_EffectHoldsWeakRef ==
    /\ [](\A s \in Slot :
             (s \in effects /\ HandlesDropped(s)) =>
                 (~DataAlive(s) /\ buf[s] = NoValues))
    /\ [][\A s \in Slot :
             (HandlesHead /\ Head(bq) = RunEffectEv(s) /\ HandlesDropped(s)) =>
                 /\ bworld' = bworld
                 /\ bkind' = bkind
                 /\ battached' = battached
                 /\ brun' = "running"]_vars

(* The run loop has run the effect of a fragment whose FragmentState was
   dropped after a guard had set x: the effect is still registered, no
   RunEffect for it is left, and the World has no value for x. *)
C35_Witness ==
    \E s \in Slot :
        /\ brun = "running"
        /\ s \in effects
        /\ HandlesDropped(s)
        /\ lastSet[s]["x"] # 0
        /\ bworld[fent[s]]["x"] = 0
        /\ ~InSeq(RunEffectEv(s), bq)

(* The run loop is inside the flush effect of slot k, blocked in
   data.write(): RunEffect(k) is the event being handled and a write guard
   of k is held. *)
DispBlockedOn(k) ==
    /\ brun = "running"
    /\ bq # <<>>
    /\ Head(bq) = RunEffectEv(k)
    /\ k \in effects
    /\ DataAlive(k)
    /\ ~EffectCanLock(k)

(* C21: the buffered design is deadlock-free. Whenever the run loop is
   blocked on the RwLock of a fragment, the task that holds the lock is not
   waiting for the run loop: its next step towards releasing the lock (the
   drop of the guard, which sends RunEffect, or the release after the flush)
   can be taken as things are. *)
C21_NoDeadlock ==
    \A k \in Slot : DispBlockedOn(k) => ENABLED (FDropGuard(k) \/ FRelease(k))

(* The run loop is blocked on the lock of a fragment that is inside a second
   write guard, while an attached child waits for its Schedule event. *)
C21_Witness ==
    \E k \in Slot :
        /\ DispBlockedOn(k)
        /\ fst[k] = "guard"
        /\ \E s \in Slot : fst[s] = "wait" /\ InSeq(ScheduleEv(s), bq)

-----------------------------------------------------------------------------
(* The Row composite widget (fragments-core/examples/basic.rs, Row::mount).

   mount attaches the children, builds update_layout and update_loop and
   awaits join!(update_loop, update_layout). futures::join! polls its
   futures in the order written, each time the task is polled: first
   update_loop, whose FuturesUnordered polls the children's mount futures,
   then update_layout, whose first poll subscribes to changes of `size` on
   the children and whose loop awaits width_changed.notified(). *)

(* The task of the Row is polled: join! starts with update_loop. *)
RowPoll ==
    /\ rjpc = "idle"
    /\ rjpc' = "loop"
    /\ UNCHANGED <<kst, ksize, laid, subscribed, permit>>
    /\ UNCHANGED <<avars, bvars, nvars, dvars>>

(* futures.next(): the FuturesUnordered polls a child's mount future, a new
   one or one that was woken. *)
KidPoll(c) ==
    /\ rjpc = "loop"
    /\ \A k \in Kid : kst[k] # "running"
    /\ kst[c] \in {"unpolled", "pending"}
    /\ kst' = [kst EXCEPT ![c] = "running"]
    /\ UNCHANGED <<rjpc, ksize, laid, subscribed, permit>>
    /\ UNCHANGED <<avars, bvars, nvars, dvars>>

(* What a size write of a child does to width_changed: the World calls the
   subscriber if it is registered, and the subscriber notifies. *)
Notified(sub, p) == p \/ sub

(* The child's mount body writes its size: fragment.write().set(size(), ..). *)
KidWrite(c) ==
    /\ kst[c] = "running"
    /\ ksize[c] < MaxSizeWrites
    /\ ksize' = [ksize EXCEPT ![c] = @ + 1]
    /\ permit' = Notified(subscribed, permit)
    /\ UNCHANGED <<rjpc, kst, laid, subscribed>>
    /\ UNCHANGED <<avars, bvars, nvars, dvars>>

(* The child's mount body awaits something that is not ready. *)
KidSuspend(c) ==
    /\ kst[c] = "running"
    /\ kst' = [kst EXCEPT ![c] = "pending"]
    /\ UNCHANGED <<rjpc, ksize, laid, subscribed, permit>>
    /\ UNCHANGED <<avars, bvars, nvars, dvars>>

(* The child's mount body returns. *)
KidReturn(c) ==
    /\ kst[c] = "running"
    /\ kst' = [kst EXCEPT ![c] = "done"]
    /\ UNCHANGED <<rjpc, ksize, laid, subscribed, permit>>
    /\ UNCHANGED <<avars, bvars, nvars, dvars>>

(* update_loop has polled every future that was ready: join! goes on to
   update_layout. *)
LoopDone ==
    /\ rjpc = "loop"
    /\ \A k \in Kid : kst[k] \notin {"unpolled", "running"}
    /\ rjpc' = "layout"
    /\ UNCHANGED <<kst, ksize, laid, subscribed, permit>>
    /\ UNCHANGED <<avars, bvars, nvars, dvars>>

(* First poll of update_layout: app.world().subscribe(ChangeSubscriber on
   size, filtered on the children of the Row). *)
LayoutSubscribe ==
    /\ rjpc = "layout"
    /\ ~subscribed
    /\ subscribed' = TRUE
    /\ UNCHANGED <<rjpc, kst, ksize, laid, permit>>
    /\ UNCHANGED <<avars, bvars, nvars, dvars>>

(* width_changed.notified().await returns, and the layout is recomputed
   from the size of every child: q.get(id).unwrap(). *)
LayoutRecompute ==
    /\ rjpc = "layout"
    /\ subscribed
    /\ permit
    /\ \A k \in Kid : ksize[k] # 0
    /\ permit' = FALSE
    /\ laid' = ksize
    /\ UNCHANGED <<rjpc, kst, ksize, subscribed>>
    /\ UNCHANGED <<avars, bvars, nvars, dvars>>

(* The recompute finds a child that has no size yet: q.get(id) is Err and
   unwrap panics in the Row's task. *)
LayoutPanic ==
    /\ rjpc = "layout"
    /\ subscribed
    /\ permit
    /\ \E k \in Kid : ksize[k] = 0
    /\ rjpc' = "panicked"
    /\ UNCHANGED <<kst, ksize, laid, subscribed, permit>>
    /\ UNCHANGED <<avars, bvars, nvars, dvars>>

(* width_changed.notified() is pending: the poll of join! returns Pending. *)
LayoutPending ==
    /\ rjpc = "layout"
    /\ subscribed
    /\ ~permit
    /\ rjpc' = "idle"
    /\ UNCHANGED <<kst, ksize, laid, subscribed, permit>>
    /\ UNCHANGED <<avars, bvars, nvars, dvars>>

NextRow ==
    \/ RowPoll
    \/ \E c \in Kid : KidPoll(c)
    \/ \E c \in Kid : KidWrite(c)
    \/ \E c \in Kid : KidSuspend(c)
    \/ \E c \in Kid : KidReturn(c)
    \/ LoopDone
    \/ LayoutSubscribe
    \/ LayoutRecompute
    \/ LayoutPanic
    \/ LayoutPending

SpecRow == Init /\ [][NextRow]_vars

(* C36: in the Row the subscription on the children's size is registered
   before any child's mount body writes its size, so that every size write
   of a child, the first one included, is followed by a layout recompute:
   a size the layout has not used yet always has its notification pending. *)
C36_SubscribedBeforeSizeWrites ==
    /\ [][\A c \in Kid : ksize'[c] # ksize[c] => subscribed]_vars
    /\ []((\E c \in Kid : ksize[c] # laid[c]) => (subscribed /\ permit))

-----------------------------------------------------------------------------
(* DesyncRef::sync (fragments-core/src/desync.rs), with a consumer thread
   that receives each job, invokes it once and drops it.

   The job a sync call sends is the closure that owns f, the clone r of the
   call's Arc<OnceCell> and the caller's Thread handle. A job of this model
   adds d to the contained value and returns the new value. *)

Delta == 1..MaxDelta

(* f applied to the contained value. *)
ApplyF(d, v) == v + d

(* sync up to the send: result = Arc::new(OnceCell::new()), r = result.clone()
   is moved into the job, tx.send(job).unwrap(). *)
SyncSend(d) ==
    /\ ccpc = "idle"
    /\ dcalls < MaxCalls
    /\ dcalls' = dcalls + 1
    /\ dq' = Append(dq, d)
    /\ dcell' = 0
    /\ dstrong' = 2
    /\ dret' = 0
    /\ dexp' = 0
    /\ ccpc' = "sent"
    /\ UNCHANGED <<kpc, dcur, dtoken, dval>>
    /\ UNCHANGED <<avars, bvars, nvars, rowvars>>

(* thread::park() is called: it returns at once if the token is set, and
   consumes it; otherwise the thread blocks. *)
SyncPark ==
    /\ ccpc = "sent"
    /\ IF dtoken
       THEN /\ dtoken' = FALSE
            /\ ccpc' = "woke"
       ELSE /\ dtoken' = dtoken
            /\ ccpc' = "parked"
    /\ UNCHANGED <<kpc, dq, dcur, dcell, dstrong, dval, dret, dexp, dcalls>>
    /\ UNCHANGED <<avars, bvars, nvars, rowvars>>

(* The blocked park returns because the token was set. *)
ParkUnparked ==
    /\ ccpc = "parked"
    /\ dtoken
    /\ dtoken' = FALSE
    /\ ccpc' = "woke"
    /\ UNCHANGED <<kpc, dq, dcur, dcell, dstrong, dval, dret, dexp, dcalls>>
    /\ UNCHANGED <<avars, bvars, nvars, rowvars>>

(* The blocked park returns spuriously (std::thread::park may do so). *)
ParkSpurious ==
    /\ ccpc = "parked"
    /\ ~dtoken
    /\ ccpc' = "woke"
    /\ UNCHANGED <<kpc, dq, dcur, dcell, dstrong, dtoken, dval, dret, dexp,
                   dcalls>>
    /\ UNCHANGED <<avars, bvars, nvars, rowvars>>

(* Arc::try_unwrap(result).ok().and_then(|v| v.into_inner()): the cell's
   value if the caller holds the only strong reference and the cell is set,
   None (0) otherwise. *)
TryUnwrap(strong, cell) == IF strong = 1 THEN cell ELSE 0

(* The match after park: Some(v) => v, None => unreachable!(). *)
SyncUnwrap ==
    /\ ccpc = "woke"
    /\ IF TryUnwrap(dstrong, dcell) # 0
       THEN /\ dret' = TryUnwrap(dstrong, dcell)
            /\ ccpc' = "idle"
       ELSE /\ dret' = dret
            /\ ccpc' = "panicked"
    /\ dstrong' = dstrong - 1
    /\ UNCHANGED <<kpc, dq, dcur, dcell, dtoken, dval, dexp, dcalls>>
    /\ UNCHANGED <<avars, bvars, nvars, rowvars>>

(* The consumer receives the next job. *)
JobRecv ==
    /\ kpc = "recv"
    /\ dq # <<>>
    /\ dcur' = Head(dq)
    /\ dq' = Tail(dq)
    /\ kpc' = "run"
    /\ UNCHANGED <<ccpc, dcell, dstrong, dtoken, dval, dret, dexp, dcalls>>
    /\ UNCHANGED <<avars, bvars, nvars, rowvars>>

(* The consumer invokes the job: r.set(f(v)). The cell is new for each call
   and each job is invoked once, so set does not fail. *)
JobRun ==
    /\ kpc = "run"
    /\ dcell = 0
    /\ dval' = ApplyF(dcur, dval)
    /\ dcell' = ApplyF(dcur, dval)
    /\ dexp' = ApplyF(dcur, dval)
    /\ kpc' = "set"
    /\ UNCHANGED <<ccpc, dq, dcur, dstrong, dtoken, dret, dcalls>>
    /\ UNCHANGED <<avars, bvars, nvars, rowvars>>

(* The job goes on: tid.unpark() sets the caller's token. *)
JobUnpark ==
    /\ kpc = "set"
    /\ dtoken' = TRUE
    /\ kpc' = "unparked"
    /\ UNCHANGED <<ccpc, dq, dcur, dcell, dstrong, dval, dret, dexp, dcalls>>
    /\ UNCHANGED <<avars, bvars, nvars, rowvars>>

(* The call of the job has returned and the consumer drops the Box: the
   closure's r is dropped with it. *)
JobDrop ==
    /\ kpc = "unparked"
    /\ dstrong' = dstrong - 1
    /\ dcur' = 0
    /\ kpc' = "recv"
    /\ UNCHANGED <<ccpc, dq, dcell, dtoken, dval, dret, dexp, dcalls>>
    /\ UNCHANGED <<avars, bvars, nvars, rowvars>>

NextDesync ==
    \/ \E d \in Delta : SyncSend(d)
    \/ SyncPark
    \/ ParkUnparked
    \/ ParkSpurious
    \/ SyncUnwrap
    \/ JobRecv
    \/ JobRun
    \/ JobUnpark
    \/ JobDrop

SpecDesync == Init /\ [][NextDesync]_vars

(* C37: DesyncRef::sync(f) returns f applied to the contained value. With a
   consumer that invokes each job once, in every interleaving of the two
   threads and also when park returns spuriously, the caller never reaches
   unreachable!(), and what it returns is what f returned. *)
C37_SyncReturnsResult ==
    /\ ccpc # "panicked"
    /\ dret # 0 => dret = dexp

====
